---- MODULE Spec2Model ----
(***************************************************************************)
(* Model of Script.py, the Streamlit speech recognition app.               *)
(*                                                                         *)
(* Python strings are sequences of one-character strings, so that strip(),  *)
(* the "in" substring test and concatenation are computed as Python does.  *)
(* The two glyphs of the messages are single characters, written "U+23F0"  *)
(* (alarm clock) and "U+274C" (cross mark).                                *)
(***************************************************************************)
EXTENDS Integers, Sequences, FiniteSets, TLC

\* ---------------------------------------------------------------- bounds
\* "Start Recording" clicks allowed between two Clears.
MaxRecordings == 2

\* ------------------------------------------------------- string helpers
Whitespace == {" ", "\t", "\n"}

RECURSIVE LStrip(_)
LStrip(s) ==
  IF s # <<>> /\ Head(s) \in Whitespace THEN LStrip(Tail(s)) ELSE s

RECURSIVE RStrip(_)
RStrip(s) ==
  IF s # <<>> /\ s[Len(s)] \in Whitespace
  THEN RStrip(SubSeq(s, 1, Len(s) - 1)) ELSE s

\* str.strip()
Strip(s) == RStrip(LStrip(s))

\* sub in s
Contains(sub, s) ==
  \E i \in 1..(Len(s) - Len(sub) + 1) : SubSeq(s, i, i + Len(sub) - 1) = sub

Digit(d) == <<"0","1","2","3","4","5","6","7","8","9">>[d + 1]

\* f"{n}" for a non-negative integer
RECURSIVE IntToStr(_)
IntToStr(n) ==
  IF n < 10 THEN <<Digit(n)>> ELSE IntToStr(n \div 10) \o <<Digit(n % 10)>>

\* -------------------------------------------------- message constants
MsgGoogleUnknown == <<"G","o","o","g","l","e"," ","c","o","u","l","d"," ","n","o","t"," ","u","n","d","e","r","s","t","a","n","d"," ","a","u","d","i","o",".">>
PrefixGoogleService == <<"G","o","o","g","l","e"," ","s","e","r","v","i","c","e"," ","e","r","r","o","r",":"," ">>
PrefixError == <<"E","r","r","o","r",":"," ">>
PrefixDeepgramApi == <<"D","e","e","p","g","r","a","m"," ","A","P","I"," ","E","r","r","o","r"," ">>
PrefixDeepgramExc == <<"D","e","e","p","g","r","a","m"," ","t","r","a","n","s","c","r","i","p","t","i","o","n"," ","e","r","r","o","r",":"," ">>
UnknownError == <<"U","n","k","n","o","w","n"," ","e","r","r","o","r">>
MsgTimeout == <<"U+23F0"," ","N","o"," ","s","p","e","e","c","h"," ","d","e","t","e","c","t","e","d"," ","w","i","t","h","i","n"," ","t","h","e"," ","t","i","m","e","o","u","t"," ","p","e","r","i","o","d",".">>
PrefixFatal == <<"U+274C"," ","E","r","r","o","r",":"," ">>

\* The substrings that make main() treat a result as an error.
ErrorMarkers == {
  <<"E","r","r","o","r">>,
  <<"c","o","u","l","d"," ","n","o","t"," ","u","n","d","e","r","s","t","a","n","d">>,
  <<"s","e","r","v","i","c","e"," ","e","r","r","o","r">>,
  <<"A","P","I"," ","E","r","r","o","r">>,
  <<"t","r","a","n","s","c","r","i","p","t","i","o","n"," ","e","r","r","o","r">> }

\* ------------------------------------------------ environment (inputs)
\* str(e) of an exception raised by a library call.
ExcText == <<"f","a","i","l">>

\* Values typed into the sidebar key field.
Keys == { <<>>, <<"d","g","_","1">> }

\* Transcripts the Google recogniser can hand back.
GoogleTexts == { <<>>, <<" ">>, <<"h","i">>, <<" ","o","k"," ">>,
                 <<"n","o"," ","E","r","r","o","r">> }

\* Transcripts in a Deepgram 200 body, before strip().
DeepgramTranscripts == { <<>>, <<" "," ">>, <<"h","i">> }

GoogleEnv ==
  { [kind |-> "ok", text |-> t] : t \in GoogleTexts }
  \cup { [kind |-> k, text |-> ExcText] :
           k \in {"unknown_value", "request_error", "exception"} }

\* What the HTTP POST to Deepgram produces.
DeepgramResponses ==
  { [kind |-> "ok", status |-> 200, body |-> t] : t \in DeepgramTranscripts }
  \cup { [kind |-> "malformed", status |-> 200, body |-> <<>>],
         [kind |-> "json_error", status |-> 401,
          body |-> <<"I","N","V","A","L","I","D","_","A","U","T","H">>],
         [kind |-> "json_no_code", status |-> 403, body |-> <<>>],
         [kind |-> "text_error", status |-> 502,
          body |-> <<"B","a","d"," ","G","a","t","e","w","a","y">>],
         [kind |-> "timeout", status |-> 0, body |-> <<>>] }

MicEnv == {"ok", "wait_timeout", "exception"}
RecordEnv == {"ok", "fail_before_file", "fail_after_file"}
TempEnv == {"ok", "create_fails", "write_fails"}
SaveEnv == {"ok", "open_fails"}

\* Files the app creates on disk for audio.
\* recorded.wav is a fixed name.  NamedTemporaryFile picks a name no
\* existing file has: TempWav is the file of the running action, and a
\* temp file that outlives its action is kept as an orphan of its own name.
RecordedWav == "recorded.wav"
TempWav == "tmp.wav"
OrphanAudioWav == "tmp_audio_orphan.wav"
OrphanTestWav == "tmp_test_orphan.wav"
AudioFiles == {RecordedWav, OrphanAudioWav, OrphanTestWav}

\* ------------------------------------------------------------ providers
\* record_audio_pyaudio: the recording is written to recorded.wav; any
\* exception is caught and None is returned.
RecordAudioPyaudio(env, fs) ==
  CASE env = "ok" ->
         [filename |-> RecordedWav, fs |-> fs \cup {RecordedWav}]
    [] env = "fail_before_file" ->
         [filename |-> "None", fs |-> fs]
    [] env = "fail_after_file" ->
         [filename |-> "None", fs |-> fs \cup {RecordedWav}]

\* transcribe_with_deepgram: reads the file, POSTs it with the key in the
\* Authorization header, and turns the response into a string.
TranscribeWithDeepgram(audio_file_path, api_key, resp, fs) ==
  IF audio_file_path \notin fs
  THEN [text |-> PrefixDeepgramExc \o ExcText, sent |-> {}]
  ELSE
    CASE resp.kind = "timeout" ->
           [text |-> PrefixDeepgramExc \o ExcText, sent |-> {api_key}]
      [] resp.kind = "ok" ->
           [text |-> Strip(resp.body), sent |-> {api_key}]
      [] resp.kind = "malformed" ->
           [text |-> PrefixDeepgramExc \o ExcText, sent |-> {api_key}]
      [] resp.kind = "json_error" ->
           [text |-> PrefixDeepgramApi \o IntToStr(resp.status)
                       \o <<":", " ">> \o resp.body,
            sent |-> {api_key}]
      [] resp.kind = "json_no_code" ->
           [text |-> PrefixDeepgramApi \o IntToStr(resp.status)
                       \o <<":", " ">> \o UnknownError,
            sent |-> {api_key}]
      [] resp.kind = "text_error" ->
           [text |-> PrefixDeepgramApi \o IntToStr(resp.status)
                       \o <<":", " ">> \o resp.body,
            sent |-> {api_key}]

\* transcribe_audio_data_deepgram: writes the captured audio to a temp
\* file (delete=False), transcribes it, unlinks it.
TranscribeAudioDataDeepgram(api_key, env, resp, fs) ==
  CASE env = "create_fails" ->
         [text |-> PrefixDeepgramExc \o ExcText, sent |-> {}, fs |-> fs]
    [] env = "write_fails" ->
         [text |-> PrefixDeepgramExc \o ExcText, sent |-> {},
          fs |-> fs \cup {OrphanAudioWav}]
    [] env = "ok" ->
         LET r == TranscribeWithDeepgram(TempWav, api_key, resp,
                                         fs \cup {TempWav})
         IN  [text |-> r.text, sent |-> r.sent,
              fs |-> (fs \cup {TempWav}) \ {TempWav}]

\* transcribe_with_google: recognises a recorded file.
TranscribeWithGoogle(env) ==
  CASE env.kind = "ok" -> env.text
    [] env.kind = "unknown_value" -> MsgGoogleUnknown
    [] env.kind = "request_error" -> PrefixGoogleService \o env.text
    [] env.kind = "exception" -> PrefixError \o env.text

\* --------------------------------------------------------------- state
VARIABLES
  api_key,        \* value of the sidebar key field
  transcription,  \* st.session_state.transcription
  files,          \* audio files present on disk
  httpLog,        \* Authorization keys of the POSTs sent to Deepgram
  attempts,       \* "Start Recording" clicks since the last Clear
  fragments,      \* texts of the successful transcriptions since the last Clear
  last            \* what the last user action did: the provider's answer,
                  \* the message shown, the POSTs sent, the data written to
                  \* transcription.txt or handed to the browser

vars == <<api_key, transcription, files, httpLog, attempts, fragments, last>>

Step(op, outcome, provider, text, notice, sent) ==
  [op |-> op, outcome |-> outcome, provider |-> provider, text |-> text,
   notice |-> notice, sent |-> sent]

Init ==
  /\ api_key = <<>>
  /\ transcription = <<>>
  /\ files = {}
  /\ httpLog = {}
  /\ attempts = 0
  /\ fragments = <<>>
  /\ last = Step("init", "none", "none", <<>>, "none", {})

\* ------------------------------------------------------------- widgets
\* (mutant) the Deepgram method is offered whatever the key field holds.
ApiChoicesAlways(key) ==
  {"Google Speech Recognition", "Deepgram", "Record First (PyAudio)"}

\* The options of the "Choose recognition method" radio.
ApiChoices(key) ==
  IF key # <<>>
  THEN {"Google Speech Recognition", "Deepgram", "Record First (PyAudio)"}
  ELSE {"Google Speech Recognition", "Record First (PyAudio)"}

\* The transcriber used after "Record First": the "Transcribe with" radio
\* when a key is entered, Google otherwise.
TransMethods(key) ==
  IF key # <<>> THEN {"Google", "Deepgram"} ELSE {"Google"}

\* The test deciding that a result is appended to the transcription.
Accepted(text) ==
  /\ text # <<>>
  /\ \A m \in ErrorMarkers : ~Contains(m, text)

\* The value of the transcription after a result was handled.
Appended(acc, text) ==
  IF Accepted(text) THEN acc \o <<" ">> \o Strip(text) ELSE acc

\* The message shown for a result.
Notice(text) ==
  IF Accepted(text) THEN "success"
  ELSE IF text # <<>> THEN "warning" ELSE "none"

\* How the provider's answer is classified, independently of its text.
DeepgramOutcome(resp, sent) ==
  IF sent = {} THEN "exception"
  ELSE CASE resp.kind = "ok" ->
              IF Strip(resp.body) = <<>> THEN "empty" ELSE "success"
         [] resp.kind \in {"malformed", "timeout"} -> "exception"
         [] OTHER -> "non200"

GoogleOutcome(env) ==
  IF env.kind = "ok" THEN "success" ELSE env.kind

\* The end of the "Start Recording" handler: the result is appended or
\* shown as a warning.
Finish(r) ==
  /\ transcription' = Appended(transcription, r.text)
  /\ files' = r.fs
  /\ httpLog' = httpLog \cup r.sent
  /\ attempts' = attempts + 1
  /\ fragments' = IF r.outcome = "success" /\ r.text # <<>>
                  THEN Append(fragments, r.text) ELSE fragments
  /\ last' = Step("record", r.outcome, r.provider, r.text, Notice(r.text),
                  r.sent)
  /\ UNCHANGED api_key

Result(text, outcome, provider, sent, fs) ==
  [text |-> text, outcome |-> outcome, provider |-> provider,
   sent |-> sent, fs |-> fs]

\* ------------------------------------------------------------- actions
\* sr.Microphone() or r.listen() raises: WaitTimeoutError when nobody
\* speaks, anything else when the device fails.
MicFailure(mic) ==
  IF mic = "wait_timeout"
  THEN Result(MsgTimeout, "wait_timeout", "none", {}, files)
  ELSE Result(PrefixFatal \o ExcText, "exception", "none", {}, files)

\* r.recognize_google on the captured audio; an exception other than the
\* two handled ones reaches the handler of main().
RecognizeGoogle(g) ==
  CASE g.kind = "ok" -> g.text
    [] g.kind = "unknown_value" -> MsgGoogleUnknown
    [] g.kind = "request_error" -> PrefixGoogleService \o g.text
    [] g.kind = "exception" -> PrefixFatal \o g.text

\* "Start Recording" with the method "Google Speech Recognition".
StartRecordingGoogle ==
  /\ attempts < MaxRecordings
  /\ "Google Speech Recognition" \in ApiChoices(api_key)
  /\ \/ \E mic \in MicEnv \ {"ok"} : Finish(MicFailure(mic))
     \/ \E g \in GoogleEnv :
          Finish(Result(RecognizeGoogle(g), GoogleOutcome(g), "google", {},
                        files))

\* "Start Recording" with the method "Deepgram".
StartRecordingDeepgram ==
  /\ attempts < MaxRecordings
  /\ "Deepgram" \in ApiChoices(api_key)
  /\ \/ \E mic \in MicEnv \ {"ok"} : Finish(MicFailure(mic))
     \/ \E tmp \in TempEnv, resp \in DeepgramResponses :
          \* no request is made when the temp file fails: one response is enough
          /\ tmp # "ok" => resp.kind = "timeout"
          /\ LET d == TranscribeAudioDataDeepgram(api_key, tmp, resp, files)
             IN  Finish(Result(d.text, DeepgramOutcome(resp, d.sent),
                               "deepgram", d.sent, d.fs))

\* "Start Recording" with the method "Record First (PyAudio)".
StartRecordingRecordFirst ==
  /\ attempts < MaxRecordings
  /\ "Record First (PyAudio)" \in ApiChoices(api_key)
  /\ \E rec \in RecordEnv :
       LET a == RecordAudioPyaudio(rec, files)
       IN  IF a.filename = "None"
           THEN Finish(Result(<<>>, "record_failed", "none", {}, a.fs))
           ELSE \E method \in TransMethods(api_key) :
                  IF method = "Google"
                  THEN \E g \in GoogleEnv :
                         Finish(Result(TranscribeWithGoogle(g),
                                       GoogleOutcome(g), "google", {},
                                       a.fs \ {a.filename}))
                  ELSE \E resp \in DeepgramResponses :
                         LET d == TranscribeWithDeepgram(a.filename, api_key,
                                                         resp, a.fs)
                         IN  Finish(Result(d.text,
                                           DeepgramOutcome(resp, d.sent),
                                           "deepgram", d.sent,
                                           a.fs \ {a.filename}))

StartRecording ==
  \/ StartRecordingGoogle
  \/ StartRecordingDeepgram
  \/ StartRecordingRecordFirst

\* (mutant) the transcription is tested without strip().
SaveHasContentNoStrip(acc) == acc # <<>>

\* The condition under which "Save to File" writes the file.
SaveHasContent(acc) == Strip(acc) # <<>>

\* What "Save to File" writes.
SaveData(acc) == Strip(acc)

\* The condition under which the "Download" button is rendered.
DownloadOffered(acc) == Strip(acc) # <<>>

\* The data attached to the "Download" button.
DownloadData(acc) == acc

\* "Clear".
Clear ==
  /\ transcription' = <<>>
  /\ attempts' = 0
  /\ fragments' = <<>>
  /\ last' = Step("clear", "none", "none", <<>>, "none", {})
  /\ UNCHANGED <<api_key, files, httpLog>>

\* "Save to File": transcription.txt is written when there is something
\* to save, a warning is shown otherwise.
SaveToFile ==
  /\ IF SaveHasContent(transcription)
     THEN \E env \in SaveEnv :
            IF env = "ok"
            THEN last' = Step("save", "written", "none",
                              SaveData(transcription), "success", {})
            ELSE last' = Step("save", "exception", "none", <<>>,
                              "exception", {})
     ELSE last' = Step("save", "nothing", "none", <<>>, "warning", {})
  /\ UNCHANGED <<api_key, transcription, files, httpLog, attempts, fragments>>

\* A click on "Download".
Download ==
  /\ DownloadOffered(transcription)
  /\ last' = Step("download", "delivered", "none",
                  DownloadData(transcription), "none", {})
  /\ UNCHANGED <<api_key, transcription, files, httpLog, attempts, fragments>>

\* The user edits the key field.
SetApiKey ==
  /\ \E k \in Keys \ {api_key} : api_key' = k
  /\ last' = Step("key", "none", "none", <<>>, "none", {})
  /\ UNCHANGED <<transcription, files, httpLog, attempts, fragments>>

\* The message of the connection test.
TestNotice(result) ==
  IF Contains(<<"A","P","I"," ","E","r","r","o","r">>, result)
  THEN "error"
  ELSE IF Contains(<<"t","r","a","n","s","c","r","i","p","t","i","o","n"," ","e","r","r","o","r">>, result)
  THEN "error"
  ELSE "success"

\* "Test Deepgram Connection": a silent WAV is written to a temp file
\* (delete=False), sent to Deepgram and unlinked.
TestConnection ==
  /\ api_key # <<>>
  /\ \/ \E env \in TempEnv \ {"ok"} :
          /\ files' = IF env = "write_fails"
                      THEN files \cup {OrphanTestWav} ELSE files
          /\ httpLog' = httpLog
          /\ last' = Step("test", "exception", "none", <<>>, "exception", {})
     \/ \E resp \in DeepgramResponses :
          LET d == TranscribeWithDeepgram(TempWav, api_key, resp,
                                          files \cup {TempWav})
          IN  /\ files' = (files \cup {TempWav}) \ {TempWav}
              /\ httpLog' = httpLog \cup d.sent
              /\ last' = Step("test", DeepgramOutcome(resp, d.sent),
                              "deepgram", d.text, TestNotice(d.text), d.sent)
  /\ UNCHANGED <<api_key, transcription, attempts, fragments>>

Next ==
  \/ StartRecording
  \/ Clear
  \/ SaveToFile
  \/ Download
  \/ SetApiKey
  \/ TestConnection

Spec == Init /\ [][Next]_vars

\* ------------------------------------- transcribe_with_deepgram alone
\* The function called on any path and with any key, on any disk.
FnKeys == Keys \cup { <<"k","e","y">> }

InitFn ==
  /\ api_key \in FnKeys
  /\ files \in SUBSET AudioFiles
  /\ transcription = <<>>
  /\ httpLog = {}
  /\ attempts = 0
  /\ fragments = <<>>
  /\ last = Step("init", "none", "none", <<>>, "none", {})

CallTranscribeWithDeepgram ==
  /\ last.op = "init"
  /\ \E path \in AudioFiles, resp \in DeepgramResponses :
       LET d == TranscribeWithDeepgram(path, api_key, resp, files)
       IN  /\ httpLog' = httpLog \cup d.sent
           /\ last' = Step("call", DeepgramOutcome(resp, d.sent), "deepgram",
                           d.text, "none", d.sent)
  /\ UNCHANGED <<api_key, transcription, files, attempts, fragments>>

NextFn == CallTranscribeWithDeepgram

SpecFn == InitFn /\ [][NextFn]_vars

\* ------------------------------------------------------------ properties
RECURSIVE JoinTrimmed(_)
JoinTrimmed(ts) ==
  IF ts = <<>> THEN <<>>
  ELSE IF Len(ts) = 1 THEN Strip(ts[1])
  ELSE Strip(ts[1]) \o <<" ">> \o JoinTrimmed(Tail(ts))

FailureOutcomes ==
  {"non200", "unknown_value", "request_error", "wait_timeout", "exception"}

\* C1: the trimmed transcription is the trimmed texts of the successful
\* transcriptions since the last Clear, joined by single spaces, in order.
C1_AccumulatorIsJoinOfSuccesses ==
  Strip(transcription) = Strip(JoinTrimmed(fragments))

\* C2: a "Start Recording" that ends in a failure leaves the transcription
\* unchanged.
C2_FailureLeavesAccumulator ==
  [][(last'.op = "record" /\ last'.outcome \in FailureOutcomes)
       => transcription' = transcription]_vars

\* C3: transcribe_with_deepgram called with an empty key sends no POST.
C3_NoKeyNoPost ==
  (last.op = "call" /\ api_key = <<>>) => last.sent = {}

\* C4: a Deepgram 200 answer whose transcript is empty after trimming is
\* shown to the user as a warning, and the transcription is unchanged.
C4_EmptyTranscriptIsSurfaced ==
  [][(last'.op = "record" /\ last'.outcome = "empty")
       => (last'.notice = "warning" /\ transcription' = transcription)]_vars

\* C5: when an action has finished, none of the audio files it created is
\* left on disk.
C5_NoAudioFileLeft ==
  files = {}

\* C6: Clear leaves an empty snapshot, and a successful transcription right
\* after a Clear gives a snapshot equal to that transcript.
C6_ClearThenSuccess ==
  [][/\ last'.op = "clear" => Strip(transcription') = <<>>
     /\ (last.op = "clear" /\ last'.op = "record"
           /\ last'.outcome = "success")
          => Strip(transcription') = Strip(last'.text)]_vars

\* C7: "Save to File" on a transcription that is empty after trimming writes
\* nothing and warns; the file is written, and success reported, only when
\* the trimmed transcription is not empty.
C7_SaveOnlyNonEmpty ==
  last.op = "save" =>
    /\ Strip(transcription) = <<>>
         => (last.outcome = "nothing" /\ last.notice = "warning")
    /\ last.outcome = "written"
         => (Strip(transcription) # <<>> /\ last.notice = "success")
    /\ last.notice = "success" => last.outcome = "written"

C7_Witness ==
  /\ last.op = "save"
  /\ last.notice = "warning"
  /\ transcription # <<>>

\* C8: what "Save to File" writes and what "Download" hands over are both
\* the trimmed transcription.
C8_ExportsAreTrimmed ==
  (last.op = "download" \/ (last.op = "save" /\ last.outcome = "written"))
    => last.text = Strip(transcription)

\* C9: a transcription result that is empty or only whitespace leaves the
\* stored transcription unchanged.
C9_BlankResultIsNoOp ==
  [][(last'.op = "record" /\ last'.outcome \in {"success", "empty"}
        /\ Strip(last'.text) = <<>>)
       => transcription' = transcription]_vars

\* C10: no POST to Deepgram carries an empty key, and with an empty key a
\* "Start Recording" is transcribed by Google only.
C10_DeepgramOnlyWithKey ==
  /\ <<>> \notin httpLog
  /\ (last.op = "record" /\ api_key = <<>>)
       => (last.provider \in {"google", "none"} /\ last.sent = {})

C10_Witness ==
  /\ last.op = "record"
  /\ api_key = <<>>
  /\ last.provider = "google"
  /\ httpLog # {}

====
